---------------------------- MODULE Spec2Model ----------------------------
(***************************************************************************)
(* Model of openVulnQuery/query_client.py: the module-level helper         *)
(* ensure_adv_format_token, the filter classes, and OpenVulnQueryClient    *)
(* (construction, the get_by dispatcher, the nine topic handlers,          *)
(* get_request and advisory_list).                                         *)
(*                                                                         *)
(* Python values are represented as follows.                               *)
(*   str            a TLA+ string                                          *)
(*   None           the record None below, where an object or a dict is    *)
(*                  expected; the string NoneStr where a string is         *)
(*                  expected (TLC does not compare strings to records)     *)
(*   dict           a function from its keys to its values                 *)
(*   list / tuple   a sequence                                             *)
(*   parsed JSON    a tagged record [t |-> "dict" | "list", v |-> ...]     *)
(*   exception      a record [exc, args, response]                         *)
(***************************************************************************)
EXTENDS Integers, Sequences, FiniteSets, TLC

VARIABLES
    pc,           \* "new" | "idle" | "waiting" | "done": where the caller is
    auth_url,     \* self.auth_url
    auth_token,   \* self.auth_token
    headers,      \* self.headers
    oauth_calls,  \* number of calls made to authorization.get_oauth_token
    a_filter,     \* the filter object the caller holds (None when it has none)
    call          \* the call in progress or just finished, with what it did

vars == <<pc, auth_url, auth_token, headers, oauth_calls, a_filter, call>>

-----------------------------------------------------------------------------
(* Bounds of the model                                                     *)

MaxArgs == 2      \* most positional arguments given to a temporal filter
MaxAdv == 1       \* most entries of a JSON list in a response body

-----------------------------------------------------------------------------
(* Python values                                                           *)

None == [none |-> TRUE]
NoneStr == "<None>"
EmptyDict == [k \in {} |-> ""]

Range(s) == {s[i] : i \in 1..Len(s)}
Min(a, b) == IF a < b THEN a ELSE b
SeqsUpTo(S, n) == UNION {[1..k -> S] : k \in 0..n}

\* zip(a, b): pairs up to the shorter of the two
Zip(a, b) == [i \in 1..Min(Len(a), Len(b)) |-> <<a[i], b[i]>>]

\* dict(pairs): the last pair of a key wins
Dict(pairs) ==
    [k \in {pairs[i][1] : i \in 1..Len(pairs)} |->
        LET last == CHOOSE i \in 1..Len(pairs) :
                        /\ pairs[i][1] = k
                        /\ \A j \in 1..Len(pairs) : pairs[j][1] = k => j <= i
        IN pairs[last][2]]

-----------------------------------------------------------------------------
(* Module-level constants and ensure_adv_format_token                      *)

ADV_TOKENS == <<"cvrf", "oval", "ios">>

TEMPORAL_FILTER_KEYS_swapped == <<"endDate", "startDate">>
TEMPORAL_FILTER_KEYS == <<"startDate", "endDate">>
PUBLISHED_FIRST == "firstpublished"
PUBLISHED_LAST == "lastpublished"

ensure_adv_format_token_first(adv_format) ==
    IF adv_format \in Range(ADV_TOKENS) THEN adv_format ELSE ADV_TOKENS[1]
ensure_adv_format_token(adv_format) ==
    IF adv_format \in Range(ADV_TOKENS) THEN adv_format
    ELSE ADV_TOKENS[Len(ADV_TOKENS)]

-----------------------------------------------------------------------------
(* Filter classes                                                          *)

Filter(path, params) == [path |-> path, params |-> params]
FilterDefault == Filter("", None)

TemporalFilter(path, args) ==
    [path |-> path, params |-> Dict(Zip(TEMPORAL_FILTER_KEYS, args))]
FirstPublished(args) == TemporalFilter(PUBLISHED_FIRST, args)
LastUpdated(args) == TemporalFilter(PUBLISHED_LAST, args)

-----------------------------------------------------------------------------
(* Exceptions and outcomes of a call                                       *)

NoExc == [exc |-> "", args |-> <<>>, response |-> None]
Exc(name, args) == [exc |-> name, args |-> args, response |-> None]
HTTPErrorOf(args, response) ==
    [exc |-> "HTTPError", args |-> args, response |-> response]

Returned(value) == [kind |-> "return", value |-> value, exc |-> NoExc]
Raised(e) == [kind |-> "raise", value |-> <<>>, exc |-> e]
Pending == [kind |-> "pending", value |-> <<>>, exc |-> NoExc]

-----------------------------------------------------------------------------
(* Collaborators that are not part of query_client.py                      *)

REQUEST_TOKEN_URL == "https://cloudsso.cisco.com/as/token.oauth2"
API_URL == "https://api.cisco.com/security/advisories"

\* rest_api.rest_with_auth_headers(auth_token, user_agent)
rest_with_auth_headers(token, user_agent) ==
    [h \in {"Authorization", "Accept", "User-Agent"} |->
        CASE h = "Authorization" -> "Bearer " \o token
          [] h = "Accept" -> "application/json"
          [] h = "User-Agent" -> user_agent]

\* advisory.advisory_factory(adv, adv_format, logger): an opaque object built
\* from one raw entry and the format token it was declared with
advisory_factory(adv, adv_format) == [raw |-> adv, adv_format |-> adv_format]

\* requests.Response.raise_for_status(): an HTTPError carrying the response
\* for the client (4xx) and server (5xx) error statuses, nothing otherwise
raise_for_status(r) ==
    IF r.status \in 400..599
    THEN HTTPErrorOf(<<ToString(r.status) \o " Error">>, r) ELSE NoExc

-----------------------------------------------------------------------------
(* Inputs                                                                  *)

JDict(d) == [t |-> "dict", v |-> d]
JList(l) == [t |-> "list", v |-> l]
Text == [t |-> "text", v |-> <<>>]     \* a body that is not JSON

AdvEntries == {JDict([advisoryId |-> "sa-1"])}
AdvLists == SeqsUpTo(AdvEntries, MaxAdv)
Bodies ==
    {JDict([advisories |-> l]) : l \in AdvLists}
        \cup AdvEntries \cup {JList(l) : l \in AdvLists} \cup {Text}
Statuses == {200, 304, 404}
Responses == [status : Statuses, body : Bodies]

FormatInputs == {"cvrf", "oval", "ios", "cvfr", NoneStr}
Aspects == {"CVE-2015-1234", "high"}
Dates == {"2020-01-01", "2020-02-01"}
Tokens == {"tokA", "tokB"}
AuthUrlInputs == {NoneStr, "https://sso.example/token"}

-----------------------------------------------------------------------------
(* OpenVulnQueryClient: requests and results                               *)

\* What a handler has done when it reaches (or fails to reach) its GET
Request(path, params) == [raised |-> NoExc, path |-> path, params |-> params]
Fails(e) == [raised |-> e, path |-> "", params |-> None]

\* get_request, up to the GET: the url, the headers and the parameters sent
RequestHeaders_noauth ==
    [h \in DOMAIN headers \ {"Authorization"} |-> headers[h]]
RequestHeaders == headers
get_request_send(path, params) ==
    [url |-> API_URL \o "/" \o path,
     path |-> path,
     headers |-> RequestHeaders,
     params |-> params]

\* get_request, from the response on: raise_for_status(), then r.json()
get_request_recv(r) ==
    LET e == raise_for_status(r)
    IN IF e # NoExc THEN [raised |-> e, json |-> None]
       ELSE IF r.body.t = "text"
              THEN [raised |-> Exc("ValueError", <<"No JSON object">>),
                    json |-> None]
              ELSE [raised |-> NoExc, json |-> r.body]

\* advisory_list(advisories, adv_format): one factory call per entry, in order
advisory_list_fmt_raw(adv_format) == adv_format
advisory_list_fmt(adv_format) == ensure_adv_format_token(adv_format)
advisory_list(advisories, adv_format) ==
    [i \in 1..Len(advisories) |->
        advisory_factory(advisories[i], advisory_list_fmt(adv_format))]

\* advisories['advisories'] on the parsed body
AdvisoriesKey(json) ==
    IF json.t = "list"
    THEN [raised |-> Exc("TypeError", <<"list indices must be integers">>),
          value |-> <<>>]
    ELSE IF "advisories" \notin DOMAIN json.v
           THEN [raised |-> Exc("KeyError", <<"advisories">>), value |-> <<>>]
           ELSE [raised |-> NoExc, value |-> json.v.advisories]

\* {'advisories': [self.get_request(req_path)]}['advisories']
WrapAdvisory_flat(json) == IF json.t = "list" THEN json.v ELSE <<json>>
WrapAdvisory(json) == <<json>>

-----------------------------------------------------------------------------
(* The topic handlers, up to the GET                                       *)

AttributeError(attr) ==
    Exc("AttributeError", <<"'NoneType' object has no attribute '" \o attr \o "'">>)

get_by_all(adv_format, all_adv, f) ==
    IF f = None THEN Fails(AttributeError("path"))
    ELSE Request(ensure_adv_format_token(adv_format) \o "/" \o all_adv
                    \o "/" \o f.path,
                 f.params)

get_by_cve_filtered(adv_format, cve, f) ==
    Request(ensure_adv_format_token(adv_format) \o "/cve/" \o cve,
            IF f = None THEN None ELSE f.params)
get_by_cve(adv_format, cve, f) ==
    Request(ensure_adv_format_token(adv_format) \o "/cve/" \o cve, None)

get_by_advisory(adv_format, an_advisory, f) ==
    Request(ensure_adv_format_token(adv_format) \o "/advisory/" \o an_advisory,
            None)

get_by_severity(adv_format, severity, f) ==
    LET filter == IF f = None THEN FilterDefault.path ELSE f.path
        req_path == ensure_adv_format_token(adv_format) \o "/severity/"
                        \o severity \o "/" \o filter
    IN IF f = None THEN Fails(AttributeError("params"))
       ELSE Request(req_path, f.params)

get_by_year(adv_format, year, f) ==
    Request(ensure_adv_format_token(adv_format) \o "/year/" \o year, None)

get_by_latest(adv_format, latest, f) ==
    Request(ensure_adv_format_token(adv_format) \o "/latest/" \o latest, None)

get_by_product(adv_format, product_name, f) ==
    Request(ensure_adv_format_token(adv_format) \o "/product",
            [product |-> product_name])

get_by_ios_xe(adv_format, ios_version, f) ==
    Request("iosxe", [version |-> ios_version])

get_by_ios_with_format(adv_format, ios_version, f) ==
    Request(ensure_adv_format_token(adv_format) \o "/ios",
            [version |-> ios_version])
get_by_ios(adv_format, ios_version, f) ==
    Request("ios", [version |-> ios_version])

-----------------------------------------------------------------------------
(* The topic handlers, from the response on                                *)

Result(outcome, factory) == [outcome |-> outcome, factory |-> factory]

\* advisories = self.get_request(...)
\* return self.advisory_list(advisories['advisories'], adv_format)
ListResult(adv_format, r) ==
    LET g == get_request_recv(r)
    IN IF g.raised # NoExc THEN Result(Raised(g.raised), <<>>)
       ELSE LET a == AdvisoriesKey(g.json)
            IN IF a.raised # NoExc THEN Result(Raised(a.raised), <<>>)
               ELSE LET l == advisory_list(a.value, adv_format)
                    IN Result(Returned(l), l)

\* get_by_advisory: the parsed body becomes the only entry
AdvisoryResult(adv_format, r) ==
    LET g == get_request_recv(r)
    IN IF g.raised # NoExc THEN Result(Raised(g.raised), <<>>)
       ELSE LET l == advisory_list(WrapAdvisory(g.json), adv_format)
            IN Result(Returned(l), l)

\* get_by_ios_xe, get_by_ios: advisory_list(..., None), and an HTTPError is
\* caught and raised anew as HTTPError(e.response.status_code, e.response.text)
Reraise(e) == HTTPErrorOf(<<e.response.status, e.response.body>>, None)
IosResult(r) ==
    LET res == ListResult(NoneStr, r)
    IN IF res.outcome.kind = "raise" /\ res.outcome.exc.exc = "HTTPError"
       THEN Result(Raised(Reraise(res.outcome.exc)), <<>>)
       ELSE res

-----------------------------------------------------------------------------
(* get_by: the dispatch table and the call through it                      *)

trampoline_swapped ==
    [t \in {"all", "cve", "advisory", "severity", "year", "latest", "product",
            "ios_xe", "ios"} |->
        CASE t = "ios_xe" -> "get_by_ios"
          [] t = "ios" -> "get_by_ios_xe"
          [] OTHER -> "get_by_" \o t]
trampoline ==
    [t \in {"all", "cve", "advisory", "severity", "year", "latest", "product",
            "ios_xe", "ios"} |-> "get_by_" \o t]

\* Binding **kwargs to a handler's parameters (adv_format, <aspect>, a_filter):
\* a_filter has the default None in every handler but get_by_all
Bind(handler, kwargs) ==
    IF DOMAIN kwargs \ {"a_filter"} # {}
    THEN [raised |-> Exc("TypeError", <<"unexpected keyword argument">>),
          a_filter |-> None]
    ELSE IF "a_filter" \in DOMAIN kwargs
           THEN [raised |-> NoExc, a_filter |-> kwargs.a_filter]
           ELSE IF handler = "get_by_all"
                  THEN [raised |->
                            Exc("TypeError",
                                <<"missing 1 required positional argument">>),
                        a_filter |-> None]
                  ELSE [raised |-> NoExc, a_filter |-> None]

Handle(handler, adv_format, aspect, f) ==
    CASE handler = "get_by_all" -> get_by_all(adv_format, aspect, f)
      [] handler = "get_by_cve" -> get_by_cve(adv_format, aspect, f)
      [] handler = "get_by_advisory" -> get_by_advisory(adv_format, aspect, f)
      [] handler = "get_by_severity" -> get_by_severity(adv_format, aspect, f)
      [] handler = "get_by_year" -> get_by_year(adv_format, aspect, f)
      [] handler = "get_by_latest" -> get_by_latest(adv_format, aspect, f)
      [] handler = "get_by_product" -> get_by_product(adv_format, aspect, f)
      [] handler = "get_by_ios_xe" -> get_by_ios_xe(adv_format, aspect, f)
      [] handler = "get_by_ios" -> get_by_ios(adv_format, aspect, f)

Complete(handler, adv_format, r) ==
    CASE handler = "get_by_advisory" -> AdvisoryResult(adv_format, r)
      [] handler \in {"get_by_ios_xe", "get_by_ios"} -> IosResult(r)
      [] OTHER -> ListResult(adv_format, r)

UnsupportedTopic(topic) ==
    Exc("KeyError", <<"REST API 'topic' (" \o topic \o ") not (yet) supported.">>)

-----------------------------------------------------------------------------
(* State machine                                                           *)

NoCall ==
    [op |-> "none", topic |-> "", format |-> NoneStr, aspect |-> "",
     kwargs |-> EmptyDict, handler |-> "", hargs |-> <<>>,
     gets |-> <<>>, resp |-> None, factory |-> <<>>, outcome |-> Pending]

Topics == DOMAIN trampoline \cup {"bogus", "ios-xe"}

\* the keyword arguments a caller passes to get_by: none, the filter it
\* holds as a_filter, or a keyword no handler has
KwargsChoices == {"none", "a_filter", "verbose"}
Kwargs(choice) ==
    CASE choice = "none" -> EmptyDict
      [] choice = "a_filter" -> [a_filter |-> a_filter]
      [] choice = "verbose" -> [verbose |-> None]

Init ==
    /\ pc = "new"
    /\ auth_url = NoneStr
    /\ auth_token = NoneStr
    /\ headers = EmptyDict
    /\ oauth_calls = 0
    /\ a_filter = None
    /\ call = NoCall

\* OpenVulnQueryClient(client_id, client_secret, auth_url, user_agent), where
\* token is what authorization.get_oauth_token answers
Construct(auth_url_arg, user_agent, token) ==
    /\ pc = "new"
    /\ auth_url' = IF auth_url_arg \in {NoneStr, ""} THEN REQUEST_TOKEN_URL
                   ELSE auth_url_arg
    /\ auth_token' = token
    /\ oauth_calls' = oauth_calls + 1
    /\ headers' = rest_with_auth_headers(token, user_agent)
    /\ pc' = "idle"
    /\ UNCHANGED <<a_filter, call>>

\* a_filter = Filter(path, params)
NewFilter(path, params) ==
    /\ pc = "idle"
    /\ a_filter' = Filter(path, params)
    /\ call' = [NoCall EXCEPT !.op = "Filter", !.hargs = <<path>>,
                              !.outcome = Returned(<<Filter(path, params)>>)]
    /\ pc' = "done"
    /\ UNCHANGED <<auth_url, auth_token, headers, oauth_calls>>

\* a_filter = FirstPublished(*args)
NewFirstPublished(args) ==
    /\ pc = "idle"
    /\ a_filter' = FirstPublished(args)
    /\ call' = [NoCall EXCEPT !.op = "FirstPublished", !.hargs = args,
                              !.outcome = Returned(<<FirstPublished(args)>>)]
    /\ pc' = "done"
    /\ UNCHANGED <<auth_url, auth_token, headers, oauth_calls>>

\* a_filter = LastUpdated(*args)
NewLastUpdated(args) ==
    /\ pc = "idle"
    /\ a_filter' = LastUpdated(args)
    /\ call' = [NoCall EXCEPT !.op = "LastUpdated", !.hargs = args,
                              !.outcome = Returned(<<LastUpdated(args)>>)]
    /\ pc' = "done"
    /\ UNCHANGED <<auth_url, auth_token, headers, oauth_calls>>

\* ensure_adv_format_token(adv_format), called on its own
EnsureAdvFormatToken(adv_format) ==
    /\ pc = "idle"
    /\ call' = [NoCall EXCEPT !.op = "ensure_adv_format_token",
                              !.format = adv_format,
                              !.outcome =
                                  Returned(<<ensure_adv_format_token(adv_format)>>)]
    /\ pc' = "done"
    /\ UNCHANGED <<auth_url, auth_token, headers, oauth_calls, a_filter>>

\* client.get_by(topic, format, aspect, **kwargs), up to the GET being sent
GetBy(topic, format, aspect, choice) ==
    /\ pc = "idle"
    /\ LET kwargs == Kwargs(choice)
           c == [NoCall EXCEPT !.op = "get_by", !.topic = topic,
                               !.format = format, !.aspect = aspect,
                               !.kwargs = kwargs]
       IN IF topic \notin DOMAIN trampoline
          THEN /\ call' = [c EXCEPT !.outcome = Raised(UnsupportedTopic(topic))]
               /\ pc' = "done"
          ELSE LET h == trampoline[topic]
                   d == [c EXCEPT !.handler = h,
                                  !.hargs = <<format, aspect, kwargs>>]
                   b == Bind(h, kwargs)
                   q == Handle(h, format, aspect, b.a_filter)
               IN IF b.raised # NoExc
                  THEN /\ call' = [d EXCEPT !.outcome = Raised(b.raised)]
                       /\ pc' = "done"
                  ELSE IF q.raised # NoExc
                         THEN /\ call' = [d EXCEPT !.outcome = Raised(q.raised)]
                              /\ pc' = "done"
                         ELSE /\ call' = [d EXCEPT !.gets =
                                    <<get_request_send(q.path, q.params)>>]
                              /\ pc' = "waiting"
    /\ UNCHANGED <<auth_url, auth_token, headers, oauth_calls, a_filter>>

\* the server answers r: the rest of get_request and of the handler
Respond(r) ==
    /\ pc = "waiting"
    /\ LET res == Complete(call.handler, call.format, r)
       IN call' = [call EXCEPT !.resp = r, !.factory = res.factory,
                               !.outcome = res.outcome]
    /\ pc' = "done"
    /\ UNCHANGED <<auth_url, auth_token, headers, oauth_calls, a_filter>>

\* the caller has its result or its exception and goes on
Finish ==
    /\ pc = "done"
    /\ pc' = "idle"
    /\ call' = NoCall
    /\ UNCHANGED <<auth_url, auth_token, headers, oauth_calls, a_filter>>

Next ==
    \/ \E u \in AuthUrlInputs, t \in Tokens : Construct(u, "TestApp", t)
    \/ \E q \in {None, [startDate |-> "2020-01-01"]} : NewFilter("", q)
    \/ \E args \in SeqsUpTo(Dates, MaxArgs) : NewFirstPublished(args)
    \/ \E args \in SeqsUpTo(Dates, MaxArgs) : NewLastUpdated(args)
    \/ \E f \in FormatInputs : EnsureAdvFormatToken(f)
    \/ \E t \in Topics, f \in FormatInputs, a \in Aspects, k \in KwargsChoices :
            GetBy(t, f, a, k)
    \/ \E r \in Responses : Respond(r)
    \/ Finish

Spec == Init /\ [][Next]_vars

-----------------------------------------------------------------------------
(* Properties                                                              *)

LastToken == ADV_TOKENS[Len(ADV_TOKENS)]
Normalized(f) == IF f \in Range(ADV_TOKENS) THEN f ELSE LastToken
InGetBy == call.op = "get_by" /\ pc \in {"waiting", "done"}

\* C1: ensure_adv_format_token never raises; it returns a member of
\* ADV_TOKENS unchanged and returns the last member of ADV_TOKENS for every
\* other input, None and misspelt tokens included.
C1_EnsureTotal ==
    (pc = "done" /\ call.op = "ensure_adv_format_token") =>
        /\ call.outcome.kind = "return"
        /\ call.outcome.value =
              <<IF call.format \in {ADV_TOKENS[i] : i \in 1..Len(ADV_TOKENS)}
                THEN call.format ELSE ADV_TOKENS[Len(ADV_TOKENS)]>>
        /\ call.outcome.value[1] \in Range(ADV_TOKENS)

C1_Witness ==
    /\ pc = "done" /\ call.op = "ensure_adv_format_token"
    /\ call.format = "cvfr"
    /\ call.outcome = Returned(<<"ios">>)

\* C2: get_by("severity", format, severity) without a filter issues one GET
\* with path {format}/severity/{severity}/ and raises nothing before the
\* request is sent.
C2_SeverityNoFilter ==
    (InGetBy /\ call.topic = "severity" /\ call.kwargs = EmptyDict
        /\ call.format \in Range(ADV_TOKENS)) =>
        /\ Len(call.gets) = 1
        /\ call.gets[1].path =
              call.format \o "/severity/" \o call.aspect \o "/"

\* C3: a topic outside the nine of the table ends get_by in a KeyError whose
\* message names the topic, with no handler called and no GET issued; a topic
\* of the table has its own handler called with (format, aspect, kwargs).
C3_Dispatch ==
    InGetBy =>
        IF call.topic \notin {"all", "cve", "advisory", "severity", "year",
                              "latest", "product", "ios_xe", "ios"}
        THEN /\ pc = "done"
             /\ call.outcome.kind = "raise"
             /\ call.outcome.exc.exc = "KeyError"
             /\ call.outcome.exc.args =
                   <<"REST API 'topic' (" \o call.topic
                        \o ") not (yet) supported.">>
             /\ call.handler = ""
             /\ call.gets = <<>>
             /\ call.factory = <<>>
        ELSE /\ call.handler =
                   (CASE call.topic = "all" -> "get_by_all"
                      [] call.topic = "cve" -> "get_by_cve"
                      [] call.topic = "advisory" -> "get_by_advisory"
                      [] call.topic = "severity" -> "get_by_severity"
                      [] call.topic = "year" -> "get_by_year"
                      [] call.topic = "latest" -> "get_by_latest"
                      [] call.topic = "product" -> "get_by_product"
                      [] call.topic = "ios_xe" -> "get_by_ios_xe"
                      [] call.topic = "ios" -> "get_by_ios")
             /\ call.hargs = <<call.format, call.aspect, call.kwargs>>

C3_Witness ==
    /\ pc = "done" /\ call.op = "get_by" /\ call.topic = "bogus"
    /\ DOMAIN call.kwargs = {"a_filter"}
    /\ call.outcome.kind = "raise" /\ call.outcome.exc.exc = "KeyError"
    /\ call.gets = <<>>

\* C4: every GET of the topics all, cve, advisory, severity, year, latest and
\* product has as first path segment the caller's format when it is a member
\* of ADV_TOKENS and the last member otherwise, and every factory call of
\* that call is handed the same token.
FilterPaths == {"", PUBLISHED_FIRST, PUBLISHED_LAST}
PathRests ==
    {"cve/" \o call.aspect, "advisory/" \o call.aspect,
     "year/" \o call.aspect, "latest/" \o call.aspect, "product"}
        \cup {call.aspect \o "/" \o p : p \in FilterPaths}
        \cup {"severity/" \o call.aspect \o "/" \o p : p \in FilterPaths}
C4_FormatNormalized ==
    (InGetBy /\ call.topic \in {"all", "cve", "advisory", "severity", "year",
                                "latest", "product"}) =>
        /\ \A i \in 1..Len(call.gets) :
              \E rest \in PathRests :
                  call.gets[i].path = Normalized(call.format) \o "/" \o rest
        /\ \A i \in 1..Len(call.factory) :
              call.factory[i].adv_format = Normalized(call.format)

C4_Witness ==
    /\ pc = "done" /\ call.op = "get_by" /\ call.topic = "cve"
    /\ call.format = "cvfr"
    /\ call.gets # <<>> /\ call.gets[1].path = "ios/cve/" \o call.aspect
    /\ call.factory # <<>> /\ call.factory[1].adv_format = "ios"

\* C5: when its GET succeeds, get_by_advisory returns exactly one advisory,
\* built by one factory call from the whole parsed body, whether the body is
\* a dictionary or a list.
C5_AdvisoryWrapped ==
    (call.op = "get_by" /\ pc = "done" /\ call.handler = "get_by_advisory"
        /\ call.resp # None /\ call.resp.status \in 200..299
        /\ call.resp.body.t # "text") =>
        /\ call.outcome.kind = "return"
        /\ Len(call.outcome.value) = 1
        /\ call.outcome.value[1].raw = call.resp.body
        /\ Len(call.factory) = 1
        /\ call.factory[1].raw = call.resp.body

C5_Witness ==
    /\ pc = "done" /\ call.op = "get_by" /\ call.handler = "get_by_advisory"
    /\ call.resp # None /\ call.resp.status = 200
    /\ call.resp.body.t = "list" /\ Len(call.resp.body.v) = MaxAdv
    /\ Len(call.outcome.value) = 1

\* C6: every response to the GET of a query call whose status is not 2xx
\* ends the call in an HTTP error carrying the status code and the body, no
\* advisories are returned, and the call issues no further GET.
Carries(e, r) ==
    \/ e.response # None /\ e.response.status = r.status
                         /\ e.response.body = r.body
    \/ e.args = <<r.status, r.body>>
C6_NonSuccessRaises ==
    (call.op = "get_by" /\ pc = "done" /\ call.resp # None
        /\ call.resp.status \notin 200..299) =>
        /\ call.outcome.kind = "raise"
        /\ call.outcome.exc.exc = "HTTPError"
        /\ Carries(call.outcome.exc, call.resp)
        /\ call.outcome.value = <<>>
        /\ Len(call.gets) = 1

\* C7: for the topics ios_xe and ios the format has no effect: the GET has
\* the path iosxe (ios) and the parameters {version: <version>}, and every
\* advisory returned is built with the last member of ADV_TOKENS.
C7_IosIgnoresFormat ==
    (InGetBy /\ call.topic \in {"ios_xe", "ios"}) =>
        /\ \A i \in 1..Len(call.gets) :
              /\ call.gets[i].path =
                    (IF call.topic = "ios_xe" THEN "iosxe" ELSE "ios")
              /\ call.gets[i].params = [version |-> call.aspect]
        /\ DOMAIN call.kwargs \subseteq {"a_filter"} => Len(call.gets) = 1
        /\ \A i \in 1..Len(call.outcome.value) :
              call.outcome.value[i].adv_format = LastToken

C7_Witness ==
    /\ pc = "done" /\ call.op = "get_by" /\ call.topic = "ios"
    /\ call.format = "cvrf"
    /\ call.outcome.kind = "return" /\ call.outcome.value # <<>>
    /\ call.outcome.value[1].adv_format = "ios"

\* C8: get_by("cve", f, c) with f a member of ADV_TOKENS issues one GET with
\* the path f/cve/c and no query parameters, with or without a filter passed
\* as a keyword argument.
C8_CvePath ==
    (InGetBy /\ call.topic = "cve" /\ call.format \in Range(ADV_TOKENS)
        /\ DOMAIN call.kwargs \subseteq {"a_filter"}) =>
        /\ Len(call.gets) = 1
        /\ call.gets[1].path = call.format \o "/cve/" \o call.aspect
        /\ call.gets[1].url = API_URL \o "/" \o call.gets[1].path
        /\ call.gets[1].params = None

C8_Witness ==
    /\ pc = "waiting" /\ call.op = "get_by" /\ call.topic = "cve"
    /\ call.format = "cvrf" /\ call.aspect = "CVE-2015-1234"
    /\ DOMAIN call.kwargs = {"a_filter"}
    /\ call.kwargs.a_filter # None
    /\ DOMAIN call.kwargs.a_filter.params = {"startDate", "endDate"}
    /\ call.gets[1].path = "cvrf/cve/CVE-2015-1234"

\* C9: FirstPublished(s, e) is the filter with path firstpublished and params
\* {startDate: s, endDate: e}; LastUpdated(s, e) has the same params and the
\* path lastpublished.
C9_TemporalFilter ==
    (pc = "done" /\ call.op \in {"FirstPublished", "LastUpdated"}
        /\ Len(call.hargs) = 2) =>
        LET expected ==
                [path |-> IF call.op = "FirstPublished" THEN "firstpublished"
                          ELSE "lastpublished",
                 params |-> [startDate |-> call.hargs[1],
                             endDate |-> call.hargs[2]]]
        IN /\ a_filter = expected
           /\ call.outcome = Returned(<<expected>>)

C9_Witness ==
    /\ pc = "done" /\ call.op = "FirstPublished"
    /\ call.hargs = <<"2020-01-01", "2020-02-01">>
    /\ a_filter.path = "firstpublished"
    /\ a_filter.params.startDate = "2020-01-01"
    /\ a_filter.params.endDate = "2020-02-01"

\* C10: the token is acquired once, at construction: no step after it
\* changes the token, the headers or the number of token acquisitions,
\* whatever the outcome of the query calls, and every GET carries the
\* client's headers.
C10_AuthOnce ==
    /\ [][pc # "new" => /\ auth_token' = auth_token
                        /\ headers' = headers
                        /\ oauth_calls' = oauth_calls]_vars
    /\ [](pc # "new" => /\ oauth_calls = 1
                        /\ "Authorization" \in DOMAIN headers)
    /\ [](\A i \in 1..Len(call.gets) :
              /\ call.gets[i].headers = headers
              /\ "Authorization" \in DOMAIN call.gets[i].headers)

C10_Witness ==
    /\ pc = "done" /\ call.op = "get_by"
    /\ call.outcome.kind = "raise" /\ call.outcome.exc.exc = "HTTPError"
    /\ call.gets[1].headers = headers
    /\ headers["Authorization"] = "Bearer " \o auth_token
    /\ oauth_calls = 1

=============================================================================
